---- MODULE Spec2Model ----
(***************************************************************************)
(* express-router-api: the result-resolution pipeline that toMiddleware    *)
(* builds around a route handler (the rxjs implementation of index.ts).    *)
(*                                                                         *)
(* One wrapped-handler invocation on one request/response pair is          *)
(* modelled.  Values are tagged records.  A deferred value (a Promise, an  *)
(* Observable) is a script of events that settles in its own time; the     *)
(* operators of the pipeline (defer, switchMap, forkJoin, catchError,      *)
(* subscribe) are modelled by what they do with those events: everything   *)
(* that happens synchronously inside one callback is one step.             *)
(***************************************************************************)
EXTENDS Integers, Sequences, FiniteSets, TLC

\* Bounds of the model.
MaxItems == 2      \* most items one Observable of the handler emits
MaxRouteItems == 1 \* the same, for a handler registered on a route object

(***************************************************************************)
(* Values (SimpleApiResult, ApiResponse, errors, deferred values)          *)
(***************************************************************************)
\* The property names an object may have, in the order Object.keys lists them
\* ("0" is the index of the first element of an array).
KeyOrder == <<"0", "foo", "bar", "test", "error", "data">>
Keys == {KeyOrder[i] : i \in 1..Len(KeyOrder)}

Undef == [t |-> "undefined"]
Null == [t |-> "null"]
Absent == [t |-> "absent"]              \* the object has no such property
Str(s) == [t |-> "string", v |-> s]
Num(s) == [t |-> "number", v |-> s]
Bool(s) == [t |-> "boolean", v |-> s]
NoFields == [k \in Keys |-> Absent]
Obj(f) == [t |-> "object", f |-> f]
Obj1(k, v) == Obj([NoFields EXCEPT ![k] = v])
Obj2(k1, v1, k2, v2) == Obj([NoFields EXCEPT ![k1] = v1, ![k2] = v2])
Arr(s) == [t |-> "array", s |-> s]
\* The enumerable own properties of a value of type object: the fields of an
\* object literal, the elements of an array (the arrays modelled have at most
\* one); an Error, a Promise and null have none.
OwnProps(o) ==
  IF o.t = "object" THEN o.f
  ELSE IF o.t = "array" /\ Len(o.s) > 0 THEN [NoFields EXCEPT !["0"] = o.s[1]]
  ELSE NoFields
\* Object.keys(o)
ObjectKeys(o) == {k \in Keys : OwnProps(o)[k] # Absent}

\* export const ApiNext: unique symbol
ApiNext == [t |-> "symbol"]

\* class ApiResponse { constructor(public apiResult, public code = 200) }
ApiResponse(apiResult, code) ==
  [t |-> "ApiResponse", apiResult |-> apiResult, code |-> code]

\* class ApiError: message = data, statusCode (0 stands for a falsy code:
\* undefined or 0).
ApiError(data, statusCode) ==
  [t |-> "ApiError", message |-> data, statusCode |-> statusCode]

\* Any other Error (a TypeError, an Error thrown by user code).
Error(message) == [t |-> "Error", message |-> Str(message)]

\* class ExpressApiRouterError: its constructor ends with
\* Object.setPrototypeOf(this, ExpressApiRouter.prototype), so an object it
\* builds is not an instance of ExpressApiRouterError; inst says whether
\* "instanceof ExpressApiRouterError" holds of the object (TRUE only of one
\* built around the constructor, on ExpressApiRouterError.prototype).
ExpressApiRouterError(message) ==
  [t |-> "ExpressApiRouterError", message |-> Str(message), inst |-> FALSE]
WarningOnPrototype(message) ==
  [t |-> "ExpressApiRouterError", message |-> Str(message), inst |-> TRUE]

\* A Promise, fulfilled with v (ok) or rejected with v.
Promise(ok, v) == [t |-> "Promise", ok |-> ok, v |-> v]
\* An Observable: emits items, then ends ("complete", or "error" with e);
\* sync: it does so inside subscribe (of(...), throwError(...)).
Observable(sync, items, end, e) ==
  [t |-> "Observable", sync |-> sync, items |-> items, end |-> end, e |-> e]
of(v) == Observable(TRUE, <<v>>, "complete", Undef)

\* typeof v
TypeOf(v) ==
  CASE v.t \in {"undefined", "string", "number", "boolean", "symbol"} -> v.t
    [] OTHER -> "object"

\* JavaScript truthiness, as "||", "&&" and "?:" read it.
Truthy(v) ==
  /\ v.t \notin {"undefined", "null"}
  /\ v \notin {Str(""), Num("0"), Bool("false")}

\* code || 500
Or500(code) == IF code = 0 THEN 500 ELSE code
\* (err as any).statusCode
StatusCodeOf(err) == IF err.t = "ApiError" THEN err.statusCode ELSE 0
\* err instanceof ExpressApiRouterError
IsRouterError(err) == err.t = "ExpressApiRouterError" /\ err.inst

(***************************************************************************)
(* Subscriptions to deferred values                                        *)
(***************************************************************************)
\* What is left of a subscribed source: kind "sync" delivers inside
\* subscribe, "promise" delivers its item and its completion in one
\* callback, "obs" one event per callback.
NoStream == [kind |-> "none"]
Stream(kind, items, end, e) ==
  [kind |-> kind, items |-> items, end |-> end, e |-> e]

isObservable(v) == v.t = "Observable"
isPromise(v) == v.t = "Promise"

\* function resolve(value): Observable
resolve(value) ==
  IF isObservable(value)
    THEN Stream(IF value.sync THEN "sync" ELSE "obs",
                value.items, value.end, value.e)
  ELSE IF isPromise(value)
    THEN IF value.ok THEN Stream("promise", <<value.v>>, "complete", Undef)
                     ELSE Stream("promise", <<>>, "error", value.v)
  ELSE Stream("sync", <<value>>, "complete", Undef)

(***************************************************************************)
(* State                                                                   *)
(***************************************************************************)
VARIABLES
  errorFormatter,    \* apiRouter.errorFormatter
  successFormatter,  \* apiRouter.successFormatter
  options,           \* the ApiRouterOptions the router was built with
  pc,                \* "new", "registered" (toMiddleware done), "invoked"
  origHandler,       \* what the registered handler does when called
  callNext,          \* toMiddleware's callNext (true for router.param)
  pipe,              \* the pipeline of the invocation and what it has done
  subscribed,        \* the subscription is open (not unsubscribed)
  reqClosed,         \* the request has emitted 'close'
  late,              \* events of deferred values that came after unsubscribe
  chain              \* the callbacks as registered (via, layers), and the
                     \* one the request is at; origHandler and callNext
                     \* are those of that one

vars == <<errorFormatter, successFormatter, options, pc, origHandler,
          callNext, pipe, subscribed, reqClosed, late, chain>>

\* The formatters user code may supply, by what they do.
SuccessFormatters == {"default", "wrap", "wrapAsync", "throws"}
ErrorFormatters ==
  {"default", "format", "formatAsync", "throwsApiError", "throwsError", "unset"}

\* this.successFormatter(data, req, res): a returned value or a thrown error.
\*   default:   (data) => of(data)
\*   wrap:      (result) => ({test: result})
\*   wrapAsync: the same through a promise
\*   throws:    throws an Error
CallSuccessFormatter(data) ==
  CASE successFormatter = "default" -> [thrown |-> FALSE, v |-> of(data)]
    [] successFormatter = "wrap" -> [thrown |-> FALSE, v |-> Obj1("test", data)]
    [] successFormatter = "wrapAsync" ->
         [thrown |-> FALSE, v |-> Promise(TRUE, Obj1("test", data))]
    [] OTHER -> [thrown |-> TRUE, v |-> Error("success formatter failed")]

\* this.errorFormatter(err, req, res):
\*   default:        (err) => of(undefined)
\*   format:         (err) => ({data: err.message})
\*   formatAsync:    the same through a promise
\*   throwsApiError: throws new ApiError({error: err.message}, 403)
\*   throwsError:    throws an Error
\*   unset:          the property holds undefined: the call throws a TypeError
CallErrorFormatter(err) ==
  CASE errorFormatter = "default" -> [thrown |-> FALSE, v |-> of(Undef)]
    [] errorFormatter = "format" ->
         [thrown |-> FALSE, v |-> Obj1("data", err.message)]
    [] errorFormatter = "formatAsync" ->
         [thrown |-> FALSE, v |-> Promise(TRUE, Obj1("data", err.message))]
    [] errorFormatter = "throwsApiError" ->
         [thrown |-> TRUE, v |-> ApiError(Obj1("error", err.message), 403)]
    [] errorFormatter = "throwsError" ->
         [thrown |-> TRUE, v |-> Error("error formatter failed")]
    [] OTHER ->
         [thrown |-> TRUE, v |-> Error("this.errorFormatter is not a function")]

\* The calls of this.errorFormatter one subscription to processApiError or
\* to formatError makes: none when the property holds no function.
Called == IF errorFormatter = "unset" THEN 0 ELSE 1

\* const internalServerError = options.internalServerError || {error: ...}
internalServerError ==
  IF Truthy(options.internalServerError)
    THEN options.internalServerError
    ELSE Obj1("error", Str("Internal server error"))

(***************************************************************************)
(* The response sink and the subscriber                                    *)
(***************************************************************************)
\* A sink that has no res.json branch: every body goes through res.send.
sendApiResponseSend(res, apiResponse) ==
  IF TypeOf(apiResponse) = "undefined"
    THEN [res |-> res, ret |-> FALSE]
  ELSE IF TypeOf(apiResponse.apiResult) = "undefined"
          \/ apiResponse.apiResult = ApiNext
    THEN [res |-> res, ret |-> FALSE]
  ELSE
    LET r == IF apiResponse.apiResult.t = "ApiResponse"
               THEN apiResponse.apiResult ELSE apiResponse
        st == Append(res, [op |-> "status", code |-> r.code])
    IN [res |-> Append(st, [op |-> "send", body |-> r.apiResult]),
        ret |-> TRUE]

\* A sink that never sets the status: it stays the default 200.
sendApiResponseOk(res, apiResponse) ==
  IF TypeOf(apiResponse) = "undefined"
    THEN [res |-> res, ret |-> FALSE]
  ELSE IF TypeOf(apiResponse.apiResult) = "undefined"
          \/ apiResponse.apiResult = ApiNext
    THEN [res |-> res, ret |-> FALSE]
  ELSE
    LET r == IF apiResponse.apiResult.t = "ApiResponse"
               THEN apiResponse.apiResult ELSE apiResponse
        st == Append(res, [op |-> "status", code |-> 200])
    IN IF TypeOf(r.apiResult) = "object"
         THEN [res |-> Append(st, [op |-> "json", body |-> r.apiResult]),
               ret |-> TRUE]
       ELSE IF TypeOf(r.apiResult) = "string"
         THEN [res |-> Append(st, [op |-> "send", body |-> r.apiResult]),
               ret |-> TRUE]
       ELSE [res |-> Append(st, [op |-> "end"]), ret |-> TRUE]

\* A sink that unwraps a nested ApiResponse to the second level.
sendApiResponseUnwrapTwo(res, apiResponse) ==
  IF TypeOf(apiResponse) = "undefined"
    THEN [res |-> res, ret |-> FALSE]
  ELSE IF TypeOf(apiResponse.apiResult) = "undefined"
          \/ apiResponse.apiResult = ApiNext
    THEN [res |-> res, ret |-> FALSE]
  ELSE
    LET r1 == IF apiResponse.apiResult.t = "ApiResponse"
                THEN apiResponse.apiResult ELSE apiResponse
        r == IF r1.apiResult.t = "ApiResponse" THEN r1.apiResult ELSE r1
        st == Append(res, [op |-> "status", code |-> r.code])
    IN IF TypeOf(r.apiResult) = "object"
         THEN [res |-> Append(st, [op |-> "json", body |-> r.apiResult]),
               ret |-> TRUE]
       ELSE IF TypeOf(r.apiResult) = "string"
         THEN [res |-> Append(st, [op |-> "send", body |-> r.apiResult]),
               ret |-> TRUE]
       ELSE [res |-> Append(st, [op |-> "end"]), ret |-> TRUE]

\* A sink with no res.end branch: every scalar goes through res.send.
sendApiResponseNoEnd(res, apiResponse) ==
  IF TypeOf(apiResponse) = "undefined"
    THEN [res |-> res, ret |-> FALSE]
  ELSE IF TypeOf(apiResponse.apiResult) = "undefined"
          \/ apiResponse.apiResult = ApiNext
    THEN [res |-> res, ret |-> FALSE]
  ELSE
    LET r == IF apiResponse.apiResult.t = "ApiResponse"
               THEN apiResponse.apiResult ELSE apiResponse
        st == Append(res, [op |-> "status", code |-> r.code])
    IN IF TypeOf(r.apiResult) = "object"
         THEN [res |-> Append(st, [op |-> "json", body |-> r.apiResult]),
               ret |-> TRUE]
       ELSE [res |-> Append(st, [op |-> "send", body |-> r.apiResult]),
             ret |-> TRUE]

\* function sendApiResponse(res, apiResponse): res is the sequence of the
\* operations made on the response; the result is the new res and the
\* returned boolean.
sendApiResponse(res, apiResponse) ==
  IF TypeOf(apiResponse) = "undefined"
    THEN [res |-> res, ret |-> FALSE]
  ELSE IF TypeOf(apiResponse.apiResult) = "undefined"
          \/ apiResponse.apiResult = ApiNext
    THEN [res |-> res, ret |-> FALSE]
  ELSE
    LET r == IF apiResponse.apiResult.t = "ApiResponse"
               THEN apiResponse.apiResult ELSE apiResponse
        st == Append(res, [op |-> "status", code |-> r.code])
    IN IF TypeOf(r.apiResult) = "object"
         THEN [res |-> Append(st, [op |-> "json", body |-> r.apiResult]),
               ret |-> TRUE]
       ELSE IF TypeOf(r.apiResult) = "string"
         THEN [res |-> Append(st, [op |-> "send", body |-> r.apiResult]),
               ret |-> TRUE]
       ELSE [res |-> Append(st, [op |-> "end"]), ret |-> TRUE]

\* A callback that calls next() whenever callNext is set, sent or not.
SubscriberNextAnyway(x, apiResponse) ==
  LET r == sendApiResponse(x.res, apiResponse)
      isNext == IF Truthy(apiResponse)
                  THEN apiResponse.apiResult = ApiNext ELSE FALSE
  IN [x EXCEPT !.res = r.res,
               !.nexts = @ + (IF callNext \/ isNext THEN 1 ELSE 0),
               !.results = Append(@, apiResponse)]

\* A callback that calls next() whenever nothing was sent.
SubscriberAlwaysNext(x, apiResponse) ==
  LET r == sendApiResponse(x.res, apiResponse)
  IN [x EXCEPT !.res = r.res,
               !.nexts = @ + (IF r.ret THEN 0 ELSE 1),
               !.results = Append(@, apiResponse)]

\* The callback given to subscribe: x is the pipeline record; results is
\* the sequence of the values the callback was called with.
Subscriber(x, apiResponse) ==
  LET r == sendApiResponse(x.res, apiResponse)
      isNext == IF Truthy(apiResponse)
                  THEN apiResponse.apiResult = ApiNext ELSE FALSE
      calls == ~r.ret /\ (callNext \/ isNext)
  IN [x EXCEPT !.res = r.res,
               !.nexts = @ + (IF calls THEN 1 ELSE 0),
               !.results = Append(@, apiResponse)]

(***************************************************************************)
(* The pipeline of toMiddleware                                            *)
(*                                                                         *)
(* The pipeline record x holds, per operator, the inner subscription that  *)
(* is still waiting (S: the handler's deferred result; J: the inner of the *)
(* first switchMap, a forkJoin or a resolved value; F: the success         *)
(* formatter's result; A: processApiError inside the classification; C1,   *)
(* C2: the replacements of the first two catchError), the catch stage the  *)
(* chain is in (phase), and what the invocation has done: res (the         *)
(* operations sendApiResponse makes on the response), nexts, emits         *)
(* ('expressApiRouterError' events), logs (console.error), results         *)
(* (subscriber calls), own (what the handler itself wrote on the           *)
(* response), sfCalls (the arguments the success formatter was called      *)
(* with), efCalls (the calls of the error formatter).                      *)
(***************************************************************************)
RECURSIVE OnNext(_, _, _), OnError(_, _, _)

Upstream == {"S", "J", "F", "A"}

\* The subscription of a stage still listens: an error that reached a
\* catchError has torn down everything above it.
Live(x, stage) ==
  CASE stage \in Upstream -> x.phase = "up"
    [] stage = "C1" -> x.phase = "c1"
    [] OTHER -> x.phase = "c2"

RECURSIVE FeedItems(_, _, _)
FeedItems(x, stage, items) ==
  IF items = <<>> \/ ~Live(x, stage) THEN x
  ELSE FeedItems(OnNext(x, stage, Head(items)), stage, Tail(items))

\* The end of the source of a stage: its error goes down the chain, its
\* completion frees the slot.
OnEnd(x, stage, s) ==
  IF ~Live(x, stage) THEN x
  ELSE IF s.end = "error" THEN OnError(x, stage, s.e)
  ELSE [x EXCEPT ![stage] = NoStream]

\* A stage subscribes to s: a synchronous source delivers at once, any other
\* is kept until its events come.
Subscribe(x, stage, s) ==
  IF s.kind = "sync" THEN OnEnd(FeedItems(x, stage, s.items), stage, s)
  ELSE [x EXCEPT ![stage] = s]

\* A third catchError that lets the error through: nothing is delivered.
Catch3Rethrow(x, err) == [x EXCEPT !.phase = "end", !.C2 = NoStream]

\* The third catchError: of(new ApiResponse(internalServerError, ...)).
Catch3(x, err) ==
  Subscriber([x EXCEPT !.phase = "end", !.C2 = NoStream],
             ApiResponse(internalServerError, Or500(StatusCodeOf(err))))

\* A formatError that never calls the error formatter.
formatErrorNothing(err) == Stream("sync", <<Undef>>, "complete", Undef)

\* const formatError = (err) => ...: the Observable it returns (a throw of
\* the formatter inside defer is the error of the Observable).
formatError(err) ==
  IF errorFormatter # "unset"
    THEN LET c == CallErrorFormatter(err)
             wrap(formatted) == ApiResponse(formatted, Or500(StatusCodeOf(err)))
         IN IF c.thrown THEN Stream("sync", <<>>, "error", c.v)
            ELSE [resolve(c.v) EXCEPT !.items = [i \in DOMAIN @ |-> wrap(@[i])]]
    ELSE Stream("sync", <<Undef>>, "complete", Undef)

\* A second catchError that swallows the error: nothing is delivered.
Catch2Drop(x, err) == [x EXCEPT !.phase = "c2", !.C1 = NoStream]

\* The second catchError: resolve(formatError(err)).pipe(map(...)).
Catch2(x, err) ==
  LET wrap(jsonError) ==
        ApiResponse(IF Truthy(jsonError) THEN jsonError ELSE internalServerError,
                    Or500(IF Truthy(jsonError) THEN StatusCodeOf(jsonError) ELSE 0))
  IN Subscribe([x EXCEPT !.phase = "c2", !.C1 = NoStream,
                         !.efCalls = @ + Called], "C2",
               [formatError(err) EXCEPT !.items = [i \in DOMAIN @ |-> wrap(@[i])]])

\* A processApiError that forgets the error's status code.
processApiErrorAs500(err) ==
  LET c == CallErrorFormatter(err)
      wrap(formatted) ==
        IF Truthy(formatted) THEN ApiResponse(formatted, 200)
        ELSE ApiResponse(err.message, 500)
  IN IF c.thrown THEN Stream("sync", <<>>, "error", c.v)
     ELSE [resolve(c.v) EXCEPT !.items = [i \in DOMAIN @ |-> wrap(@[i])]]

\* A processApiError that keeps the error's status code for the formatted
\* payload.
processApiErrorOwnCode(err) ==
  LET c == CallErrorFormatter(err)
      wrap(formatted) ==
        IF Truthy(formatted) THEN ApiResponse(formatted, Or500(err.statusCode))
        ELSE ApiResponse(err.message, Or500(err.statusCode))
  IN IF c.thrown THEN Stream("sync", <<>>, "error", c.v)
     ELSE [resolve(c.v) EXCEPT !.items = [i \in DOMAIN @ |-> wrap(@[i])]]

\* const processApiError = (err, req, res) => ...: the Observable it returns.
processApiError(err) ==
  LET c == CallErrorFormatter(err)
      wrap(formatted) ==
        IF Truthy(formatted) THEN ApiResponse(formatted, 200)
        ELSE ApiResponse(err.message, Or500(err.statusCode))
  IN IF c.thrown THEN Stream("sync", <<>>, "error", c.v)
     ELSE [resolve(c.v) EXCEPT !.items = [i \in DOMAIN @ |-> wrap(@[i])]]

\* The first catchError.
Catch1(x0, err) ==
  LET x == [x0 EXCEPT !.phase = "c1", !.S = NoStream, !.J = NoStream,
                      !.F = NoStream, !.A = NoStream]
  IN IF IsRouterError(err)
       THEN Subscribe([x EXCEPT !.emits = @ + 1,
                               !.logs = @ + (IF options.silenceExpressApiRouterError
                                               THEN 0 ELSE 1)],
                      "C1", Stream("sync", <<Undef>>, "complete", Undef))
     ELSE IF err.t = "ApiError"
       THEN Subscribe([x EXCEPT !.efCalls = @ + Called], "C1",
                      processApiError(err))
     ELSE Subscribe(x, "C1", Stream("sync", <<>>, "error", err))

\* A classification with no ApiError branch: the error is a payload.
ClassifyAsPayload(x0, data) ==
  LET x == [x0 EXCEPT !.A = NoStream]
  IN IF data.t # "ApiResponse"
       THEN Subscribe(x, "A", resolve(of(ApiResponse(data, 200))))
     ELSE Subscribe(x, "A", resolve(of(data)))

\* The classification switchMap.
Classify(x0, data) ==
  LET x == [x0 EXCEPT !.A = NoStream]
  IN IF data.t = "ApiError"
       THEN Subscribe([x EXCEPT !.efCalls = @ + Called], "A",
                      processApiError(data))
     ELSE IF data.t # "ApiResponse"
       THEN Subscribe(x, "A", resolve(of(ApiResponse(data, 200))))
     ELSE Subscribe(x, "A", resolve(of(data)))

\* A formatter stage that hands ApiNext to the success formatter too.
formatterOperatorNoSkip(x0, data) ==
  LET x == [x0 EXCEPT !.F = NoStream]
      c == CallSuccessFormatter(data)
  IN IF c.thrown THEN OnError(x, "F", c.v)
     ELSE Subscribe(x, "F", resolve(c.v))

\* const formatterOperator = switchMap(...): a throw of the formatter is the
\* error of the switchMap.
formatterOperator(x0, data) ==
  LET x == [x0 EXCEPT !.F = NoStream]
  IN IF data = ApiNext THEN Subscribe(x, "F", resolve(of(data)))
     ELSE LET c == CallSuccessFormatter(data)
              y == [x EXCEPT !.sfCalls = Append(@, data)]
          IN IF c.thrown THEN OnError(y, "F", c.v)
             ELSE Subscribe(y, "F", resolve(c.v))

\* An isPlainObject with no Array.isArray test.
isPlainObjectOrArray(obj) ==
  /\ TypeOf(obj) = "object"
  /\ obj.t # "ApiResponse"
  /\ obj.t # "ApiError"

\* const isPlainObject = (obj) => ...
isPlainObject(obj) ==
  /\ TypeOf(obj) = "object"
  /\ obj.t # "ApiResponse"
  /\ obj.t # "ApiError"
  /\ obj.t # "array"

\* forkJoin, as promiseProps uses it.  The waiting join (slot J) holds the
\* keys, the last value each key has emitted (vals, got), the keys still
\* subscribed (pend) and the keys that have completed (done).
ForkJoin(keys) ==
  [kind |-> "forkJoin", keys |-> keys, vals |-> NoFields, got |-> {},
   pend |-> [k \in Keys |-> NoStream], done |-> {}]

\* resolve(obj[key]).pipe(map(val => ({[key]: val}))) emits val.
KeyNext(x, k, val) ==
  [x EXCEPT !.J.vals[k] = val, !.J.got = @ \cup {k}]

\* A join that emits what it has as soon as one source completes.
KeyCompleteFirst(x, k) ==
  LET j == [x.J EXCEPT !.done = @ \cup {k}, !.pend[k] = NoStream]
  IN IF k \notin j.got THEN [x EXCEPT !.J = NoStream]
     ELSE OnNext([x EXCEPT !.J = NoStream], "J", Obj(j.vals))

\* The source of key k completes: forkJoin completes with nothing when the
\* source had no value, and emits when every source has completed; the map
\* after it merges the results: Object.assign({}, ...results).
KeyComplete(x, k) ==
  LET j == [x.J EXCEPT !.done = @ \cup {k}, !.pend[k] = NoStream]
  IN IF k \notin j.got THEN [x EXCEPT !.J = NoStream]
     ELSE IF j.done = j.keys
       THEN OnNext([x EXCEPT !.J = NoStream], "J", Obj(j.vals))
     ELSE [x EXCEPT !.J = j]

\* The events a synchronous source of key k delivers inside subscribe.
KeySync(x, k, s) ==
  LET y == IF s.items = <<>> THEN x ELSE KeyNext(x, k, s.items[Len(s.items)])
  IN IF s.end = "error" THEN OnError(y, "J", s.e) ELSE KeyComplete(y, k)

\* forkJoin subscribes to the sources in the order of Object.keys.
RECURSIVE ForkJoinSubscribe(_, _, _)
ForkJoinSubscribe(x, obj, i) ==
  IF i > Len(KeyOrder) \/ x.J.kind # "forkJoin" THEN x
  ELSE LET k == KeyOrder[i]
           s == resolve(OwnProps(obj)[k])
       IN IF OwnProps(obj)[k] = Absent THEN ForkJoinSubscribe(x, obj, i + 1)
          ELSE IF s.kind = "sync"
            THEN ForkJoinSubscribe(KeySync(x, k, s), obj, i + 1)
          ELSE ForkJoinSubscribe([x EXCEPT !.J.pend[k] = s], obj, i + 1)

\* A promiseProps with no test for an empty key list: forkJoin([])
\* completes without emitting.
promisePropsJoinEmpty(x, obj) ==
  IF obj.t = "null"
    THEN OnError(x, "J", Error("Cannot convert undefined or null to object"))
  ELSE IF ObjectKeys(obj) = {}
    THEN [x EXCEPT !.J = NoStream]
  ELSE ForkJoinSubscribe([x EXCEPT !.J = ForkJoin(ObjectKeys(obj))], obj, 1)

\* const promiseProps = (obj) => ...: Object.keys(null) throws.
promiseProps(x, obj) ==
  IF obj.t = "null"
    THEN OnError(x, "J", Error("Cannot convert undefined or null to object"))
  ELSE IF ObjectKeys(obj) = {}
    THEN Subscribe(x, "J", resolve(of(obj)))
  ELSE ForkJoinSubscribe([x EXCEPT !.J = ForkJoin(ObjectKeys(obj))], obj, 1)

\* A first switchMap that hands a mapping on as it is.
switchMap1Unresolved(x0, obj) ==
  Subscribe([x0 EXCEPT !.J = NoStream], "J", resolve(obj))

\* The first switchMap: a new item unsubscribes the previous inner.
switchMap1(x0, obj) ==
  LET x == [x0 EXCEPT !.J = NoStream]
  IN IF isPlainObject(obj) THEN promiseProps(x, obj)
     ELSE Subscribe(x, "J", resolve(obj))

\* What each stage does with an item, and with an error, of its source.
OnNext(x, stage, v) ==
  CASE stage = "S" -> switchMap1(x, v)
    [] stage = "J" -> formatterOperator(x, v)
    [] stage = "F" -> Classify(x, v)
    [] OTHER -> Subscriber(x, v)

OnError(x, stage, err) ==
  CASE stage \in Upstream -> Catch1(x, err)
    [] stage = "C1" -> Catch2(x, err)
    [] OTHER -> Catch3(x, err)

NewPipe ==
  [S |-> NoStream, J |-> NoStream, F |-> NoStream, A |-> NoStream,
   C1 |-> NoStream, C2 |-> NoStream, phase |-> "up",
   res |-> <<>>, nexts |-> 0, emits |-> 0, logs |-> 0, results |-> <<>>,
   own |-> <<>>, sfCalls |-> <<>>, efCalls |-> 0]

\* What the handler itself does with res and next when it is called.
OwnOps(h) ==
  (IF h.sends THEN <<[op |-> "send", body |-> Str("test")]>> ELSE <<>>)
    \o (IF h.callsNext THEN <<[op |-> "next"]>> ELSE <<>>)

\* A callback that was registered as it is: express calls it directly.
Direct(h) == [NewPipe EXCEPT !.own = OwnOps(h)]

\* defer(() => resolve(origHandler(req, res, next))) ... .subscribe(...):
\* what the middleware has done when it returns.  A throw of the handler is
\* the error of the defer.
Middleware(h) ==
  LET x == [NewPipe EXCEPT !.own = OwnOps(h)]
  IN IF h.thrown THEN OnError(x, "S", h.v)
     ELSE Subscribe(x, "S", resolve(h.v))

\* One callback of the source waiting in a slot: its next item (a promise
\* completes in the same callback), or its end.
SlotEvent(x, stage) ==
  LET s == x[stage]
  IN IF s.items = <<>> THEN OnEnd(x, stage, s)
     ELSE LET y == OnNext([x EXCEPT ![stage].items = Tail(@)], stage, Head(s.items))
          IN IF s.kind = "promise" THEN OnEnd(y, stage, s) ELSE y

\* A join that takes the error of a source for its completion and goes on
\* with the other keys.
KeyEventPartial(x, k) ==
  LET s == x.J.pend[k]
  IN IF s.items = <<>>
       THEN IF s.end = "error"
              THEN KeyComplete([x EXCEPT !.J.got = @ \cup {k}], k)
              ELSE KeyComplete(x, k)
     ELSE LET y == KeyNext([x EXCEPT !.J.pend[k].items = Tail(@)], k, Head(s.items))
          IN IF s.kind = "promise" THEN KeyComplete(y, k) ELSE y

\* One callback of the source of key k of the waiting forkJoin.
KeyEvent(x, k) ==
  LET s == x.J.pend[k]
  IN IF s.items = <<>>
       THEN IF s.end = "error" THEN OnError(x, "J", s.e) ELSE KeyComplete(x, k)
     ELSE LET y == KeyNext([x EXCEPT !.J.pend[k].items = Tail(@)], k, Head(s.items))
          IN IF s.kind = "promise" THEN KeyComplete(y, k) ELSE y

\* The same callbacks after unsubscribe: the event is dropped.
SlotDrop(x, stage) ==
  IF x[stage].items = <<>> THEN [x EXCEPT ![stage] = NoStream]
  ELSE IF x[stage].kind = "promise" THEN [x EXCEPT ![stage] = NoStream]
  ELSE [x EXCEPT ![stage].items = Tail(@)]

KeyDrop(x, k) ==
  IF x.J.pend[k].items = <<>> \/ x.J.pend[k].kind = "promise"
    THEN [x EXCEPT !.J.pend[k] = NoStream]
  ELSE [x EXCEPT !.J.pend[k].items = Tail(@)]

(***************************************************************************)
(* The handlers, by what they return or throw                              *)
(***************************************************************************)
Bar == Str("bar")
FooBar == Obj1("foo", Bar)
EmptyObj == Obj(NoFields)
PBar == Promise(TRUE, Bar)
PTest == Promise(TRUE, Str("test"))
Forbidden == ApiError(Obj1("error", Str("test")), 403)
Denied == ApiError(Str("denied"), 0)
Foo == Error("foo")

\* Errors a handler, or a deferred value, may raise.
Raised ==
  {Forbidden, Denied, ApiError(Str("teapot"), 418), Foo,
   ExpressApiRouterError("warning"), WarningOnPrototype("warning")}

\* Values without a deferred value at the top.
Scalars == {Undef, Null, ApiNext, Str("test"), Num("1"), Bool("true")}
Literals ==
  {EmptyObj, FooBar, Obj2("foo", Bar, "bar", Num("1")),
   Obj2("foo", Obj1("bar", Bar), "test", Arr(<<Null>>))}
Embedded ==
  {Obj1("foo", PBar),
   Obj2("foo", PBar, "bar", PTest),
   Obj2("foo", PBar, "bar", Str("lit")),
   Obj1("foo", of(Bar)),
   Obj1("foo", Observable(FALSE, <<Bar>>, "complete", Undef)),
   Obj1("foo", Observable(FALSE, <<>>, "complete", Undef)),
   Obj2("foo", PBar, "bar", Promise(FALSE, Forbidden)),
   Obj2("foo", PBar, "bar", Promise(FALSE, Foo))}
Nested ==
  {Obj1("foo", Obj1("bar", PTest)),
   Obj1("foo", Promise(TRUE, Obj1("bar", PTest)))}
Lists == {Arr(<<>>), Arr(<<Str("aa")>>), Arr(<<PBar>>)}
Responses ==
  {ApiResponse(Obj1("test", Str("custom")), 418),
   ApiResponse(Str("created"), 201),
   ApiResponse(ApiResponse(FooBar, 201), 418),
   ApiResponse(ApiResponse(ApiResponse(FooBar, 202), 201), 418),
   ApiResponse(Undef, 204)}
ErrorValues == {Forbidden, Denied}
Plain ==
  Scalars \cup Literals \cup Embedded \cup Nested \cup Lists \cup Responses
    \cup ErrorValues

\* The items of the Observables handlers return.
Items == {FooBar, ApiNext, Obj1("foo", PBar)}
RECURSIVE SeqsUpTo(_, _)
SeqsUpTo(S, n) ==
  IF n = 0 THEN {<<>>}
  ELSE LET shorter == SeqsUpTo(S, n - 1)
       IN shorter \cup {Append(q, v) : q \in shorter, v \in S}
Observables ==
  {Observable(sync, items, "complete", Undef) :
     sync \in BOOLEAN, items \in SeqsUpTo(Items, MaxItems)}
  \cup {Observable(sync, items, "error", e) :
     sync \in BOOLEAN, items \in SeqsUpTo(Items, MaxItems), e \in {Forbidden, Foo}}

\* A handler: what it returns or throws, and whether it has written the
\* response itself (res.send('test')) before it returns.
\* length is the number of parameters the function declares; a function
\* that declares next (length 3) may call it itself (callsNext).
Returns(v) ==
  [v |-> v, thrown |-> FALSE, sends |-> FALSE, callsNext |-> FALSE,
   length |-> 2]
Throws(e) ==
  [v |-> e, thrown |-> TRUE, sends |-> FALSE, callsNext |-> FALSE,
   length |-> 2]
Sends(v) ==
  [v |-> v, thrown |-> FALSE, sends |-> TRUE, callsNext |-> FALSE,
   length |-> 2]
Legacy(sends, callsNext) ==
  [v |-> Undef, thrown |-> FALSE, sends |-> sends, callsNext |-> callsNext,
   length |-> 3]
LegacyNext == Legacy(FALSE, TRUE)
LegacySend == Legacy(TRUE, FALSE)
Handlers ==
  {Returns(v) : v \in Plain}
    \cup {Returns(Promise(TRUE, v)) : v \in Plain}
    \cup {Returns(Promise(FALSE, e)) : e \in Raised}
    \cup {Returns(o) : o \in Observables}
    \cup {Throws(e) : e \in Raised}
    \cup {Sends(v) : v \in {Undef, FooBar, Promise(TRUE, FooBar)}}
LegacyHandlers == {LegacyNext, LegacySend}

\* The callback lists handed to one registration: one callback, or a
\* callback that passes on followed by one that answers.
Callbacks ==
  {<<h>> : h \in Handlers \cup LegacyHandlers}
    \cup {<<a, b>> : a \in {LegacyNext, Returns(ApiNext)},
                     b \in {Returns(FooBar), Returns(Undef), LegacySend}}

\* The callback lists registered on a route object: those of Callbacks, the
\* Observables returned being of at most MaxRouteItems items.
RouteCallbacks ==
  {callbacks \in Callbacks :
     \A i \in DOMAIN callbacks :
       callbacks[i].v.t = "Observable"
         => Len(callbacks[i].v.items) <= MaxRouteItems}

(***************************************************************************)
(* Actions                                                                 *)
(***************************************************************************)
\* export function ExpressApiRouter(options): the router as built.
Init ==
  /\ options \in [silenceExpressApiRouterError : BOOLEAN,
                  internalServerError : {Undef, Str("oops")}]
  /\ errorFormatter = "default"
  /\ successFormatter = "default"
  /\ pc = "new"
  /\ origHandler = Returns(Undef)
  /\ callNext = FALSE
  /\ pipe = NewPipe
  /\ subscribed = FALSE
  /\ reqClosed = FALSE
  /\ late = 0
  /\ chain = [via |-> "none", layers |-> <<>>, at |-> 1]

\* setErrorFormatter(formatter)
setErrorFormatter(formatter) ==
  /\ pc # "invoked"
  /\ errorFormatter' = formatter
  /\ UNCHANGED <<successFormatter, options, pc, origHandler, callNext, pipe,
                 subscribed, reqClosed, late,
                 chain>>

\* A setSuccessFormatter that puts the error formatter back to the default.
setSuccessFormatterReset(formatter) ==
  /\ pc # "invoked"
  /\ successFormatter' = formatter
  /\ errorFormatter' = "default"
  /\ UNCHANGED <<options, pc, origHandler, callNext, pipe, subscribed,
                 reqClosed, late,
                 chain>>

\* setSuccessFormatter(formatter)
setSuccessFormatter(formatter) ==
  /\ pc # "invoked"
  /\ successFormatter' = formatter
  /\ UNCHANGED <<errorFormatter, options, pc, origHandler, callNext, pipe,
                 subscribed, reqClosed, late,
                 chain>>

\* toMiddleware.call(apiRouter, origHandler, options, callNext), as the
\* method functions (callNext false) and param (callNext true) call it.
toMiddleware(h, cn) ==
  /\ pc = "new"
  /\ pc' = "registered"
  /\ origHandler' = h
  /\ callNext' = cn
  /\ UNCHANGED <<errorFormatter, successFormatter, options, pipe, subscribed,
                 reqClosed, late>>

\* What express holds for one callback after registration: the middleware
\* toMiddleware made of it, or the callback itself.
Wrapped(h, cn) == [origHandler |-> h, callNext |-> cn, wrapped |-> TRUE]
Kept(h) == [origHandler |-> h, callNext |-> FALSE, wrapped |-> FALSE]

patchMethodsKeepAll(callbacks) ==
  [i \in DOMAIN callbacks |-> Kept(callbacks[i])]

patchMethodsWrapAll(callbacks) ==
  [i \in DOMAIN callbacks |-> Wrapped(callbacks[i], FALSE)]

\* apiRouter[method] = function(path, ...callbacks): each callback that
\* declares fewer than three parameters is replaced by its middleware, the
\* others are handed on as they are, in the order given.
patchMethods(callbacks) ==
  [i \in DOMAIN callbacks |->
     IF callbacks[i].length >= 3 THEN Kept(callbacks[i])
     ELSE Wrapped(callbacks[i], FALSE)]

\* route[method] = function(...callbacks), on the object route(path) returns.
patchMethodsForRoute(callbacks) ==
  [i \in DOMAIN callbacks |->
     IF callbacks[i].length >= 3 THEN Kept(callbacks[i])
     ELSE Wrapped(callbacks[i], FALSE)]

\* oldImplementation.call(...): express takes the layers; the request will
\* start at the first one.
Register(via, layers) ==
  /\ chain' = [via |-> via, layers |-> layers, at |-> 1]
  /\ IF layers[1].wrapped
     THEN toMiddleware(layers[1].origHandler, layers[1].callNext)
     ELSE /\ pc = "new"
          /\ pc' = "registered"
          /\ origHandler' = layers[1].origHandler
          /\ callNext' = FALSE
          /\ UNCHANGED <<errorFormatter, successFormatter, options, pipe,
                         subscribed, reqClosed, late>>

\* router.get(path, ...callbacks) and the other methods.
METHOD(callbacks) == Register("method", patchMethods(callbacks))

\* router.route(path).get(...callbacks) and the other methods.
routeMETHOD(callbacks) == Register("route", patchMethodsForRoute(callbacks))

\* router.param(name, handler): always wrapped, with callNext true.
param(handler) == Register("param", <<Wrapped(handler, TRUE)>>)

Layer == chain.layers[chain.at]

\* Express calls the current layer with (req, res, next): for a middleware
\* the pipeline is built and subscribed, then the 'close' listener is
\* registered; a callback kept as it is just runs.
Invoke ==
  /\ pc = "registered"
  /\ pc' = "invoked"
  /\ pipe' = IF Layer.wrapped THEN Middleware(origHandler)
             ELSE Direct(origHandler)
  /\ subscribed' = Layer.wrapped
  /\ UNCHANGED <<errorFormatter, successFormatter, options, origHandler,
                 callNext, reqClosed, late, chain>>

\* next() was called for the current layer, and a layer follows it.
PassedOn ==
  /\ pc = "invoked"
  /\ chain.at < Len(chain.layers)
  /\ \/ pipe.nexts >= 1
     \/ \E i \in DOMAIN pipe.own : pipe.own[i].op = "next"

\* next() calls the following layer at once. The layers that pass on here
\* have written nothing, so the following layer starts on an empty response.
NextLayer ==
  /\ PassedOn
  /\ chain' = [chain EXCEPT !.at = @ + 1]
  /\ origHandler' = chain'.layers[chain'.at].origHandler
  /\ callNext' = chain'.layers[chain'.at].callNext
  /\ pipe' = IF chain'.layers[chain'.at].wrapped
             THEN Middleware(origHandler')
             ELSE Direct(origHandler')
  /\ subscribed' = chain'.layers[chain'.at].wrapped
  /\ UNCHANGED <<errorFormatter, successFormatter, options, pc, reqClosed,
                 late>>

Slots == {"S", "J", "F", "A", "C1", "C2"}
Waiting(stage) ==
  pipe[stage].kind \in {"promise", "obs"}

\* A deferred value a stage waits for calls back.
Settle(stage) ==
  /\ pc = "invoked"
  /\ Waiting(stage)
  /\ IF subscribed
       THEN pipe' = SlotEvent(pipe, stage) /\ late' = late
       ELSE pipe' = SlotDrop(pipe, stage) /\ late' = late + 1
  /\ UNCHANGED <<errorFormatter, successFormatter, options, pc, origHandler,
                 callNext, subscribed, reqClosed,
                 chain>>

\* The deferred value of key k of the mapping being joined calls back.
SettleKey(k) ==
  /\ pc = "invoked"
  /\ pipe.J.kind = "forkJoin"
  /\ pipe.J.pend[k].kind \in {"promise", "obs"}
  /\ IF subscribed
       THEN pipe' = KeyEvent(pipe, k) /\ late' = late
       ELSE pipe' = KeyDrop(pipe, k) /\ late' = late + 1
  /\ UNCHANGED <<errorFormatter, successFormatter, options, pc, origHandler,
                 callNext, subscribed, reqClosed,
                 chain>>

\* A close listener that leaves the subscription as it is.
KeepSubscription(open) == open

\* req.on('close', () => subscription.unsubscribe())
Unsubscribe(open) == FALSE

\* The event cannot come between next() and the layer next() calls.
Close ==
  /\ pc = "invoked"
  /\ ~reqClosed
  /\ ~PassedOn
  /\ reqClosed' = TRUE
  /\ subscribed' = Unsubscribe(subscribed)
  /\ UNCHANGED <<errorFormatter, successFormatter, options, pc, origHandler,
                 callNext, pipe, late,
                 chain>>

Next ==
  \/ \E f \in ErrorFormatters : setErrorFormatter(f)
  \/ \E f \in SuccessFormatters : setSuccessFormatter(f)
  \/ \E callbacks \in Callbacks : METHOD(callbacks)
  \/ \E callbacks \in RouteCallbacks : routeMETHOD(callbacks)
  \/ \E handler \in Handlers : param(handler)
  \/ Invoke
  \/ NextLayer
  \/ \E stage \in Slots : Settle(stage)
  \/ \E k \in Keys : SettleKey(k)
  \/ Close

Spec == Init /\ [][Next]_vars

\* Handlers whose invocation can raise a failure: in the handler, in a
\* deferred value it returns, or in a formatter called for its result.
FailingHandlers ==
  {Throws(e) : e \in Raised}
    \cup {Returns(Promise(FALSE, e)) : e \in Raised}
    \cup {Returns(v) : v \in {Forbidden, FooBar, Promise(TRUE, Denied),
                              Obj2("foo", PBar, "bar", Promise(FALSE, Forbidden)),
                              Obj2("foo", PBar, "bar", Promise(FALSE, Foo)),
                              Observable(FALSE, <<FooBar>>, "error", Foo),
                              Observable(TRUE, <<ApiNext>>, "error", Forbidden)}}
    \cup {Sends(Promise(TRUE, FooBar))}
FailingCallbacks ==
  {<<h>> : h \in FailingHandlers} \cup {<<LegacyNext, Throws(Foo)>>}

\* A deferred value that is waited for calls back.
Settling ==
  \/ \E stage \in Slots : Settle(stage)
  \/ \E k \in Keys : SettleKey(k)

\* The same operations, registering the handlers that can fail.
FairNext ==
  \/ \E f \in ErrorFormatters : setErrorFormatter(f)
  \/ \E f \in SuccessFormatters : setSuccessFormatter(f)
  \/ \E callbacks \in FailingCallbacks : METHOD(callbacks)
  \/ \E handler \in FailingHandlers : param(handler)
  \/ Invoke
  \/ NextLayer
  \/ Settling
  \/ Close

\* Every promise and Observable involved settles: an event that is waited
\* for comes. The request's 'close' event may or may not come.
FairSpec == Init /\ [][FairNext]_vars /\ WF_vars(Settling)

(***************************************************************************)
(* What an invocation has done, as the properties read it                  *)
(***************************************************************************)
\* The body operations made on the response.
Writes ==
  Cardinality({i \in DOMAIN pipe.res : pipe.res[i].op \in {"json", "send", "end"}})
Delivered == Len(pipe.results)

\* The operations of one response with a body: status(code), then
\* json(body) for a value of type object and send(body) for a string.
Response(code, body) ==
  << [op |-> "status", code |-> code],
     [op |-> (IF TypeOf(body) = "string" THEN "send" ELSE "json"), body |-> body] >>

\* The handler's own deferred result has called back and was listened to.
Settled == pc = "invoked" /\ pipe.S = NoStream /\ late = 0

\* The result handed to the subscriber carries nothing to send.
AbsentResult(r) ==
  IF r = Undef THEN TRUE ELSE r.apiResult = Undef

C2_AtMostOnce == Writes <= 1 /\ pipe.nexts <= 1

\* C3: once the request has emitted 'close' the subscription is unsubscribed
\* and the invocation makes no response write, no next() call, no
\* 'expressApiRouterError' event, no error log and no subscriber call,
\* whatever the deferred values do afterwards.
Effects == <<pipe.res, pipe.nexts, pipe.emits, pipe.logs, pipe.results>>
C3_NoEffectAfterClose ==
  [][(reqClosed' => ~subscribed') /\ (reqClosed => Effects' = Effects)]_vars

\* C3 witness: the request closed before anything was delivered, a deferred
\* value called back afterwards, and nothing was done.
C3_Witness ==
  reqClosed /\ late >= 1 /\ Delivered = 0 /\ Effects = <<<<>>, 0, 0, 0, <<>>>>

\* A value with no deferred value in it.
RECURSIVE DeferredFree(_)
DeferredFree(v) ==
  CASE v.t \in {"Promise", "Observable"} -> FALSE
    [] v.t = "object" -> \A k \in Keys : DeferredFree(v.f[k])
    [] v.t = "array" -> \A i \in DOMAIN v.s : DeferredFree(v.s[i])
    [] OTHER -> TRUE

\* C4: a handler that returns a literal mapping (no deferred value in it)
\* gets status 200 and the mapping as JSON body, on a router whose success
\* formatter is the default one.
C4_LiteralMapping ==
  (/\ pc = "invoked" /\ ~origHandler.thrown /\ successFormatter = "default"
   /\ origHandler.v.t = "object" /\ DeferredFree(origHandler.v))
  => pipe.res = Response(200, origHandler.v)

\* C4 witness: the handler returned {foo: 'bar'} and it was written.
C4_Witness ==
  /\ pc = "invoked" /\ origHandler = Returns(FooBar)
  /\ successFormatter = "default" /\ pipe.res = Response(200, FooBar)

\* The last value a deferred value that fulfils yields.
Fulfils(d) ==
  CASE d.t = "Promise" -> d.ok
    [] d.t = "Observable" -> d.end = "complete" /\ d.items # <<>>
    [] OTHER -> TRUE
Yield(d) ==
  CASE d.t = "Promise" -> d.v
    [] d.t = "Observable" -> d.items[Len(d.items)]
    [] OTHER -> d

\* The literal structure of a value with every deferred value in its
\* mappings resolved, at any depth.
RECURSIVE DeepResolved(_)
DeepResolved(v) ==
  CASE v.t \in {"Promise", "Observable"} -> DeepResolved(Yield(v))
    [] v.t = "object" -> Obj([k \in Keys |-> DeepResolved(v.f[k])])
    [] OTHER -> v

\* C5: for a result built from mappings nested to any depth whose values are
\* deferred, the body is the fully resolved literal structure.
C5_DeepResolution ==
  (/\ pc = "invoked" /\ successFormatter = "default" /\ Writes >= 1
   /\ origHandler \in {Returns(v) : v \in Nested}
                        \cup {Returns(Promise(TRUE, v)) : v \in Nested})
  => pipe.res = Response(200, DeepResolved(origHandler.v))

\* The mapping a handler returns, directly or through a promise.
Mapping(h) ==
  IF h.thrown THEN Undef
  ELSE IF h.v.t = "Promise" THEN (IF h.v.ok THEN h.v.v ELSE Undef)
  ELSE h.v
HasDeferredField(m) ==
  \E k \in Keys : m.f[k].t \in {"Promise", "Observable"}
\* Every key mapped to the value its own deferred value yields.
Joined(m) == Obj([k \in Keys |-> Yield(m.f[k])])

\* C6: for a mapping with deferred values that all fulfil, a response is
\* written only when no key is waiting any more, and it is status 200 with
\* the mapping of every key to its resolved value, in every order in which
\* the values settle (default success formatter).
C6_JoinAll ==
  LET m == Mapping(origHandler)
  IN (/\ pc = "invoked" /\ successFormatter = "default" /\ Writes >= 1
      /\ m.t = "object" /\ HasDeferredField(m)
      /\ \A k \in Keys : Fulfils(m.f[k]))
     => pipe.J = NoStream /\ pipe.res = Response(200, Joined(m))

\* C6 witness: {foo: promise, bar: promise} was written resolved.
C6_Witness ==
  /\ origHandler = Returns(Obj2("foo", PBar, "bar", PTest))
  /\ successFormatter = "default"
  /\ pipe.res = Response(200, Obj2("foo", Bar, "bar", Str("test")))

\* The handler's value v, returned directly (the response is there when the
\* middleware returns) or through a promise (it is there once the promise
\* has called back): the response is exactly status 200 with body.
DirectOrPromised(v, body) ==
  /\ (pc = "invoked" /\ origHandler = Returns(v))
       => pipe.res = Response(200, body)
  /\ (Settled /\ origHandler = Returns(Promise(TRUE, v)))
       => pipe.res = Response(200, body)

\* C7: the empty mapping, returned directly or through a deferred value, is
\* answered with status 200 and body {} without any fan-in being waited for
\* (default success formatter).
C7_EmptyMapping ==
  successFormatter = "default" =>
    /\ DirectOrPromised(EmptyObj, EmptyObj)
    /\ origHandler \in {Returns(EmptyObj), Returns(Promise(TRUE, EmptyObj))}
         => pipe.J = NoStream

\* C7 witness: a promise of {} settled and {} was written.
C7_Witness ==
  /\ origHandler = Returns(Promise(TRUE, EmptyObj))
  /\ successFormatter = "default" /\ Settled
  /\ pipe.res = Response(200, EmptyObj)

\* C8: a list, returned directly or through a deferred value, is written as
\* it is (its elements unresolved) with status 200, and no fan-in is created
\* for it (default success formatter).
C8_ListAtomic ==
  successFormatter = "default" =>
    \A l \in Lists :
      /\ DirectOrPromised(l, l)
      /\ origHandler \in {Returns(l), Returns(Promise(TRUE, l))}
           => pipe.J = NoStream

\* C8 witness: a list holding a promise was written with the promise in it.
C8_Witness ==
  /\ origHandler = Returns(Promise(TRUE, Arr(<<PBar>>)))
  /\ successFormatter = "default" /\ Settled
  /\ pipe.res = Response(200, Arr(<<PBar>>))

\* The error a handler raises before anything else: thrown, or the rejection
\* of its promise, or the error of its Observable that has emitted nothing.
RaisedBy(h) ==
  IF h.thrown THEN h.v
  ELSE IF h.v.t = "Promise" THEN (IF h.v.ok THEN Undef ELSE h.v.v)
  ELSE IF h.v.t = "Observable"
    THEN (IF h.v.items = <<>> /\ h.v.end = "error" THEN h.v.e ELSE Undef)
  ELSE Undef
\* The handler's result has reached the pipeline.
Reached(h) ==
  IF h.thrown THEN pc = "invoked"
  ELSE IF h.v.t = "Promise" THEN Settled
  ELSE IF h.v.t = "Observable" /\ ~h.v.sync THEN Settled
  ELSE pc = "invoked"

\* C9: a handler that raises ApiError(P, C), synchronously or through a
\* rejected deferred value, with no error formatter configured, gets status
\* C and body P (C a status code, not a falsy one).
C9_RaisedApiError ==
  LET e == RaisedBy(origHandler)
  IN (/\ Reached(origHandler) /\ errorFormatter = "default"
      /\ e.t = "ApiError" /\ e.statusCode # 0)
     => pipe.res = Response(e.statusCode, e.message)

\* C9 witness: a promise rejected with ApiError({error: 'test'}, 403).
C9_Witness ==
  /\ origHandler = Returns(Promise(FALSE, Forbidden))
  /\ errorFormatter = "default"
  /\ pipe.res = Response(403, Obj1("error", Str("test")))

\* C10: ApiError(P, C) returned or resolved as a value gets the response the
\* same error gets when raised, under every error formatter that answers
\* at once, and that is status C and body P when no error formatter is
\* configured (default success formatter).
C10_ReturnedApiError ==
  \A e \in ErrorValues :
    (/\ successFormatter = "default"
     /\ \/ pc = "invoked" /\ origHandler = Returns(e)
        \/ Settled /\ origHandler = Returns(Promise(TRUE, e)))
    => /\ errorFormatter # "formatAsync"
            => pipe.res = Middleware(Throws(e)).res
       /\ (errorFormatter = "default" /\ e.statusCode # 0)
            => pipe.res = Response(e.statusCode, e.message)

\* C10 witness: a promise resolved to ApiError({error: 'test'}, 403).
C10_Witness ==
  /\ origHandler = Returns(Promise(TRUE, Forbidden))
  /\ errorFormatter = "default" /\ successFormatter = "default"
  /\ pipe.res = Response(403, Obj1("error", Str("test")))

\* Nothing of the invocation is waiting any more, and no callback was lost
\* to a closed request.
Quiet ==
  /\ pc = "invoked" /\ late = 0
  /\ \A stage \in Slots : pipe[stage] = NoStream
\* The failure is neither an ApiError nor a recognised warning.
Unformatted(e) == e.t = "Error"

\* C11: with an error formatter that returns F (directly or through a
\* promise) for a failure that is neither a Domain Error nor an Internal
\* Warning, the response is status 500 with body F.
C11_FormattedError ==
  LET e == RaisedBy(origHandler)
  IN (/\ Quiet /\ errorFormatter \in {"format", "formatAsync"}
      /\ Unformatted(e))
     => pipe.res = Response(500, Obj1("data", e.message))

\* C11 witness: a rejected promise was formatted by an asynchronous formatter.
C11_Witness ==
  /\ Quiet /\ errorFormatter = "formatAsync"
  /\ origHandler = Returns(Promise(FALSE, Foo))
  /\ pipe.res = Response(500, Obj1("data", Str("foo")))

\* C12: for a failure that is neither a Domain Error nor an Internal
\* Warning, with no error formatter configured (the default one, which
\* yields nothing), the response is status 500 with the configured fallback
\* payload as body.
C12_FallbackPayload ==
  (/\ Quiet /\ errorFormatter = "default"
   /\ Unformatted(RaisedBy(origHandler)))
  => pipe.res = Response(500, internalServerError)

\* C13: when the error formatter, called for a non-domain failure, raises
\* ApiError(P2, C2), the response is status C2 with body P2.
C13_FormatterRaisesApiError ==
  LET e == RaisedBy(origHandler)
  IN (/\ Quiet /\ errorFormatter = "throwsApiError" /\ Unformatted(e))
     => pipe.res = Response(403, Obj1("error", e.message))

\* C14: when the error formatter raises a failure that is not a Domain
\* Error, whatever failure it was called for, the response is status 500
\* with the fallback payload, and the subscriber is handed a result (no
\* failure leaves the pipeline).
C14_FormatterRaisesError ==
  LET e == RaisedBy(origHandler)
  IN (/\ Quiet /\ errorFormatter = "throwsError"
      /\ e # Undef /\ ~IsRouterError(e))
     => /\ pipe.res = Response(500, internalServerError)
        /\ Delivered = 1

\* C14 witness: the formatter failed on an ApiError and on nothing else.
C14_Witness ==
  /\ Quiet /\ errorFormatter = "throwsError"
  /\ origHandler = Throws(Forbidden)
  /\ pipe.res = Response(500, internalServerError)

\* C15: whenever the error formatter throws, an ApiError with its own
\* status code included, the response is status 500 with the fallback
\* payload.
C15_FormatterThrows ==
  LET e == RaisedBy(origHandler)
  IN (/\ Quiet /\ errorFormatter \in {"throwsApiError", "throwsError"}
      /\ e # Undef /\ ~IsRouterError(e))
     => pipe.res = Response(500, internalServerError)

\* The handlers whose result is ApiNext: returned, resolved by a promise, or
\* the one item of an Observable.
ApiNextHandlers ==
  {Returns(ApiNext), Returns(Promise(TRUE, ApiNext))}
    \cup {Returns(Observable(sync, <<ApiNext>>, "complete", Undef)) :
            sync \in BOOLEAN}

\* C16: when the handler's result is ApiNext, directly or through a deferred
\* value, the invocation writes no response and calls next() exactly once
\* (never more, and once when the result has come through), whatever the
\* formatters and the calling convention are.
C16_ApiNext ==
  origHandler \in ApiNextHandlers =>
    /\ Writes = 0 /\ pipe.nexts <= 1
    /\ Quiet => pipe.nexts = 1

\* C16 witness: a promise resolved to ApiNext on a router with a success
\* formatter, and next() was called.
C16_Witness ==
  /\ Quiet /\ origHandler = Returns(Promise(TRUE, ApiNext))
  /\ successFormatter = "wrap" /\ Writes = 0 /\ pipe.nexts = 1

C18_Undefined ==
  (/\ ~callNext /\ successFormatter = "default"
   /\ origHandler \in {Returns(Undef), Returns(Promise(TRUE, Undef))})
  => Writes = 0 /\ pipe.nexts = 0

\* C18 witness: the promise resolved to undefined, the subscriber was called
\* and did nothing.
C18_Witness ==
  /\ Quiet /\ ~callNext /\ successFormatter = "default"
  /\ origHandler = Returns(Promise(TRUE, Undef))
  /\ Delivered = 1 /\ Writes = 0 /\ pipe.nexts = 0

\* C20: when the failure is an ExpressApiRouterError built by its
\* constructor, the event is emitted, the error is logged iff
\* silenceExpressApiRouterError is not set, and nothing is written and
\* next() is not called, under both calling conventions.
C20_InternalWarning ==
  (Quiet /\ RaisedBy(origHandler) = ExpressApiRouterError("warning"))
  => /\ pipe.emits = 1
     /\ pipe.logs = 1 <=> ~options.silenceExpressApiRouterError
     /\ Writes = 0 /\ pipe.nexts = 0

\* C19: when the handler's result comes through after the handler has sent
\* the response itself, the adapter emits 'expressApiRouterError' and makes
\* no write of its own.
C19_HeadersAlreadySent ==
  (pipe.own # <<>> /\ Delivered >= 1) => Writes = 0 /\ pipe.emits >= 1

\* C21: in the pass-through convention (callNext true) next() is called
\* after every result the subscriber is handed, a result that was written
\* as a response included.
C21_AlwaysProceeds ==
  (callNext /\ Delivered >= 1) => pipe.nexts >= 1

\* C22: the success formatter is never called with an ApiError value, an
\* ApiResponse value or ApiNext.
C22_FormatterSkipsOverrides ==
  \A i \in DOMAIN pipe.sfCalls :
    /\ pipe.sfCalls[i].t \notin {"ApiError", "ApiResponse"}
    /\ pipe.sfCalls[i] # ApiNext

\* The plain payloads: scalars, lists, literal mappings and mappings whose
\* fields are deferred values that all fulfil; and the payload as it is once
\* the fields of a mapping have been resolved.
PlainPayloads ==
  {Str("test"), Num("1"), Bool("true")} \cup Lists \cup Literals
    \cup {m \in Embedded : \A k \in Keys : Fulfils(m.f[k])}
Resolved(v) == IF v.t = "object" THEN Joined(v) ELSE v

\* C23: with a success formatter f configured (synchronous or asynchronous),
\* a handler whose result is a plain payload p, directly or through a
\* promise, gets status 200 and body f(p'), p' the payload with its fields
\* resolved: f is called once, with p', after the resolution and before the
\* classification.
C23_FormatAfterResolution ==
  successFormatter \in {"wrap", "wrapAsync"} =>
    \A v \in PlainPayloads :
      (Quiet /\ origHandler \in {Returns(v), Returns(Promise(TRUE, v))})
      => /\ pipe.sfCalls = <<Resolved(v)>>
         /\ pipe.res = Response(200, Obj1("test", Resolved(v)))

\* C23 witness: {foo: promise, bar: promise} through an asynchronous
\* formatter.
C23_Witness ==
  /\ Quiet /\ successFormatter = "wrapAsync"
  /\ origHandler = Returns(Obj2("foo", PBar, "bar", PTest))
  /\ pipe.res
       = Response(200, Obj1("test", Obj2("foo", Bar, "bar", Str("test"))))

\* C27: during one invocation (of a handler whose result is at most one
\* value) the error formatter is called at most twice, and a second time
\* only when its first call raised an ApiError.
C27_FormatterCalls ==
  origHandler.v.t # "Observable" =>
    /\ pipe.efCalls <= 2
    /\ pipe.efCalls = 2 => errorFormatter = "throwsApiError"

\* The response a handler that returns {foo: 'bar'} gets under success
\* formatter sf and error formatter ef (the failure of the throwing success
\* formatter is what the error formatter is called for).
UnderFormatters(sf, ef) ==
  LET failed == Str("success formatter failed")
  IN CASE sf = "default" -> Response(200, FooBar)
       [] sf \in {"wrap", "wrapAsync"} -> Response(200, Obj1("test", FooBar))
       [] OTHER ->
            CASE ef = "default" ->
                   <<[op |-> "status", code |-> 500], [op |-> "end"]>>
              [] ef \in {"format", "formatAsync"} ->
                   Response(500, Obj1("data", failed))
              [] ef = "throwsApiError" -> Response(403, internalServerError)
              [] OTHER -> Response(500, internalServerError)

\* C24: a setter call makes its argument the formatter of its kind and
\* changes nothing else (so a second call with the same formatter changes
\* nothing, and the other kind is left alone), and an invocation that
\* follows any sequence of setter calls, made before or after the handler
\* was registered, answers with the formatters last set.
C24_LastWriteWins ==
  [][/\ \A f \in ErrorFormatters :
          setErrorFormatter(f)
            => errorFormatter' = f /\ successFormatter' = successFormatter
     /\ \A f \in SuccessFormatters :
          setSuccessFormatter(f)
            => successFormatter' = f /\ errorFormatter' = errorFormatter
     /\ (Quiet /\ origHandler = Returns(FooBar))'
          => (pipe.res = UnderFormatters(successFormatter, errorFormatter))'
    ]_vars

\* C24 witness: both formatters were set and the invocation used both.
C24_Witness ==
  /\ Quiet /\ origHandler = Returns(FooBar)
  /\ successFormatter = "throws" /\ errorFormatter = "formatAsync"
  /\ pipe.res = Response(500, Obj1("data", Str("success formatter failed")))

\* The pipeline state express gets from the layers a method function
\* registers for one callback.
AsMethod(h) ==
  IF patchMethods(<<h>>)[1].wrapped THEN Middleware(h) ELSE Direct(h)

\* C25: a registration through router.route(path).METHOD(...) hands express
\* the very layers router.METHOD(path, ...) hands it for the same callbacks,
\* an invocation of such a layer runs as it does after the method
\* registration, and under every configuration of the two formatters the
\* handler's result gets the same status and body.
C25_RouteAsMethod ==
  [][/\ (pc = "new" /\ chain'.via = "route") =>
          \A callbacks \in Callbacks :
            routeMETHOD(callbacks) =>
              /\ chain'.layers = patchMethods(callbacks)
              /\ origHandler' = callbacks[1]
              /\ callNext' = FALSE
     /\ (chain.via = "route" /\ Invoke) => pipe' = AsMethod(origHandler)
     /\ (chain.via = "route" /\ Quiet /\ origHandler = Returns(FooBar))'
          => (pipe.res = UnderFormatters(successFormatter, errorFormatter))'
    ]_vars

\* C25 witness: a handler registered on a route object returned a mapping
\* and the configured success formatter wrapped it.
C25_Witness ==
  /\ chain.via = "route" /\ Quiet /\ successFormatter = "wrap"
  /\ origHandler = Returns(FooBar)
  /\ pipe.res = Response(200, Obj1("test", FooBar))

\* C26: a method function registers as many layers as it is given
\* callbacks, in their order; a callback declaring three or more parameters
\* is kept as it is and one declaring fewer is wrapped; a kept callback runs
\* without subscription, adapter write or delivery; and after a kept
\* callback that calls next() itself the following callback is called.
C26_LegacyUnwrapped ==
  [][/\ (pc = "new" /\ chain'.via = "method") =>
          \A callbacks \in Callbacks :
            METHOD(callbacks) =>
              /\ Len(chain'.layers) = Len(callbacks)
              /\ \A i \in DOMAIN callbacks :
                   /\ chain'.layers[i].origHandler = callbacks[i]
                   /\ chain'.layers[i].wrapped <=> callbacks[i].length < 3
     /\ (pc = "invoked" /\ chain.via = "method" /\ ~Layer.wrapped)'
          => (~subscribed /\ pipe.res = <<>> /\ Delivered = 0)'
     /\ (/\ pc = "invoked" /\ chain.via = "method"
         /\ origHandler = LegacyNext /\ chain.at < Len(chain.layers))
          => /\ chain'.at = chain.at + 1
             /\ origHandler' = chain.layers[chain.at + 1].origHandler
    ]_vars

\* C26 witness: a legacy middleware called next() and the handler registered
\* after it answered the request.
C26_Witness ==
  /\ chain.via = "method" /\ chain.at = 2
  /\ chain.layers[1] = Kept(LegacyNext)
  /\ Quiet /\ successFormatter = "default"
  /\ origHandler = Returns(FooBar)
  /\ pipe.res = Response(200, FooBar)

\* A failure was raised in the invocation of a wrapped handler: the first
\* catchError has been entered.
Failed == pc = "invoked" /\ Layer.wrapped /\ pipe.phase # "up"
\* The failure the pipeline recognises as a warning was emitted, and nothing
\* was written.
Swallowed ==
  /\ pipe.emits >= 1 /\ Writes = 0
  /\ RaisedBy(origHandler) = WarningOnPrototype("warning")

C29_UnwrapOneLevel ==
  successFormatter = "default" =>
    \A r \in Responses :
      (r.apiResult.t = "ApiResponse" /\ pc = "invoked"
         /\ origHandler = Returns(r))
      => /\ pipe.results = <<r>>
         /\ pipe.res = Response(r.apiResult.code, r.apiResult.apiResult)
         /\ sendApiResponse(<<>>, r)
              = [res |-> Response(r.apiResult.code, r.apiResult.apiResult),
                 ret |-> TRUE]

\* C29 witness: three overrides nested: the response has the status of the
\* second and the third as its body.
C29_Witness ==
  /\ pc = "invoked" /\ successFormatter = "default"
  /\ origHandler
       = Returns(ApiResponse(ApiResponse(ApiResponse(FooBar, 202), 201), 418))
  /\ pipe.res = << [op |-> "status", code |-> 201],
                   [op |-> "json", body |-> ApiResponse(FooBar, 202)] >>

\* The body operation the payload's type selects.
BodyOp(v) ==
  CASE v.t \in {"object", "array"} -> [op |-> "json", body |-> v]
    [] v.t = "string" -> [op |-> "send", body |-> v]
    [] OTHER -> [op |-> "end"]

\* C30: for every result delivered to the subscriber whose payload is a
\* mapping, a list, a string, a number or a boolean, sendApiResponse sets
\* the status and then makes one body operation: res.json for a mapping or
\* a list, res.send for a string, res.end for a number or a boolean; it
\* returns true, and these two operations are the response of the delivery.
C30_TypeDispatch ==
  \A i \in DOMAIN pipe.results :
    LET r == pipe.results[i]
    IN (/\ r # Undef
        /\ r.apiResult.t \in {"object", "array", "string", "number", "boolean"})
       => /\ sendApiResponse(<<>>, r)
               = [res |-> << [op |-> "status", code |-> r.code],
                             BodyOp(r.apiResult) >>,
                  ret |-> TRUE]
          /\ Delivered = 1
               => pipe.res = << [op |-> "status", code |-> r.code],
                                BodyOp(r.apiResult) >>

\* C30 witness: a handler returned a number: status 200 and an empty body.
C30_Witness ==
  /\ Quiet /\ successFormatter = "default"
  /\ origHandler = Returns(Num("1"))
  /\ pipe.results = <<ApiResponse(Num("1"), 200)>>
  /\ pipe.res = <<[op |-> "status", code |-> 200], [op |-> "end"]>>

\* The ways a handler hands over the Domain Error e: thrown, through a
\* rejected promise, returned as a value, through a resolved promise.
RaisesDomainError(e) == {Throws(e), Returns(Promise(FALSE, e))}
ReturnsDomainError(e) == {Returns(e), Returns(Promise(TRUE, e))}

FailingField(e) == Obj2("foo", PBar, "bar", Promise(FALSE, e))

\* C32: when the deferred value of a key of the returned mapping fails, no
\* body written is a mapping holding the other keys, the success formatter
\* is not called, and the response is the one of a handler that throws the
\* same failure under the same configuration; with no error formatter
\* configured a nested ApiError(P, C) gets status C and body P and any other
\* nested failure a response of status 500.
C32_NestedFailure ==
  \A e \in {Forbidden, Foo} :
    (pc = "invoked" /\ origHandler = Returns(FailingField(e)))
    => /\ pipe.sfCalls = <<>>
       /\ \A i \in DOMAIN pipe.res :
            pipe.res[i].op = "json" /\ pipe.res[i].body.t = "object"
              => pipe.res[i].body.f["foo"] = Absent
       /\ (Quiet /\ \A stage \in Slots : Middleware(Throws(e))[stage] = NoStream)
            => pipe.res = Middleware(Throws(e)).res
       /\ (Quiet /\ errorFormatter = "default")
            => /\ pipe.res[1] = [op |-> "status", code |-> Or500(StatusCodeOf(e))]
               /\ e = Forbidden => pipe.res = Response(403, e.message)

\* C32 witness: the promise under bar was rejected with ApiError({error:
\* 'test'}, 403) and the response is 403 with that payload.
C32_Witness ==
  /\ Quiet /\ errorFormatter = "default"
  /\ origHandler = Returns(FailingField(Forbidden))
  /\ pipe.res = Response(403, Obj1("error", Str("test")))

====
